---- MODULE Spec2Model ----
(***************************************************************************)
(* A model of justbe (src/justbe.go): run scans the given files for        *)
(* outline headings that end in the marker word "tidbits", aggregates the  *)
(* matches, and prints up to three reports (sorted matches, duplicate      *)
(* names, line statistics).                                                *)
(*                                                                         *)
(* Strings are sequences of one-character strings, so that the regular     *)
(* expression, strings.TrimSpace, strings.ToLower and the byte-wise string *)
(* comparison are computed, not assumed.                                   *)
(***************************************************************************)
EXTENDS Integers, Sequences, FiniteSets, TLC

VARIABLES
    paths,                  \* opts.Paths, the argument of run
    files,                  \* the file system: expanded path -> sequence of lines
    opts,                   \* the three report flags of opts
    pc,                     \* the position of run (or of a stand-alone transform)
    expandedPaths,          \* run's expandedPaths
    idx,                    \* position of the range loop in progress (paths already visited)
    matches,                \* run's matches slice
    err,                    \* the error run returned ("" while running or on success)
    reportMatches,          \* what fmt.Println(reportMatches) printed: <<>> or <<sorted matches>>
    reportNameCounts,       \* what fmt.Println(reportNameCounts) printed: <<>> or <<filteredNames>>
    reportStats,            \* what fmt.Println(reportStats) printed: <<>> or <<statsData>>
    fileLineCounts,         \* genReportStats' fileLineCounts map
    fileMatchedLineCounts,  \* genReportStats' fileMatchedLineCounts map
    totalLineCount,         \* genReportStats' totalLineCount
    totalMatchedLineCount,  \* genReportStats' totalMatchedLineCount
    handles,                \* the *os.File handles that are open
    warnings                \* the paths slog.Warn was called for, in order

vars == <<paths, files, opts, pc, expandedPaths, idx, matches, err, reportMatches,
          reportNameCounts, reportStats, fileLineCounts, fileMatchedLineCounts,
          totalLineCount, totalMatchedLineCount, handles, warnings>>

(***************************************************************************)
(* Bounds of the model.                                                    *)
(***************************************************************************)
MaxPaths == 2       \* longest path list given to run
MaxLines == 2       \* longest file
MaxRecords == 5     \* longest match collection handed to a report transform alone

(***************************************************************************)
(* Strings.                                                                *)
(***************************************************************************)
\* The characters of the model in byte order (ASCII).
ByteOrder ==
    <<"\t", " ", "*", "A", "B", "C", "D", "E", "I", "S", "T",
      "a", "b", "c", "d", "e", "f", "g", "h", "i", "j", "k", "l", "s", "t">>

Ord(c) == CHOOSE i \in 1..Len(ByteOrder) : ByteOrder[i] = c

\* What the regexp's \s matches and strings.TrimSpace trims, among the model's characters.
Whitespace == {" ", "\t"}

ToLowerChar(c) ==
    CASE c = "A" -> "a"
      [] c = "B" -> "b"
      [] c = "C" -> "c"
      [] c = "D" -> "d"
      [] c = "E" -> "e"
      [] c = "I" -> "i"
      [] c = "S" -> "s"
      [] c = "T" -> "t"
      [] OTHER -> c

\* strings.ToLower
ToLower(s) == [i \in 1..Len(s) |-> ToLowerChar(s[i])]

\* The < of two Go strings: byte-wise lexicographic.
RECURSIVE StrLess(_, _)
StrLess(a, b) ==
    IF b = <<>> THEN FALSE
    ELSE IF a = <<>> THEN TRUE
    ELSE IF Head(a) = Head(b) THEN StrLess(Tail(a), Tail(b))
    ELSE Ord(Head(a)) < Ord(Head(b))

\* Number of leading characters of s that are in set cs.
RECURSIVE LeadingRun(_, _)
LeadingRun(s, cs) ==
    IF s = <<>> \/ Head(s) \notin cs THEN 0 ELSE 1 + LeadingRun(Tail(s), cs)

\* Number of trailing characters of s that are in set cs.
RECURSIVE TrailingRun(_, _)
TrailingRun(s, cs) ==
    IF s = <<>> \/ s[Len(s)] \notin cs THEN 0
    ELSE 1 + TrailingRun(SubSeq(s, 1, Len(s) - 1), cs)

\* strings.TrimSpace
TrimSpace(s) ==
    LET lead == LeadingRun(s, Whitespace)
    IN  IF lead = Len(s) THEN <<>>
        ELSE SubSeq(s, lead + 1, Len(s) - TrailingRun(s, Whitespace))

(***************************************************************************)
(* The heading pattern of processFile (regexp.MustCompile, line 144):      *)
(* case-insensitive; at the start one or more '*' (submatch 1), then one   *)
(* or more whitespace characters, then any text (submatch 2), then one or  *)
(* more whitespace characters, then "tidbits" at the end of the line.      *)
(***************************************************************************)
Tidbits == <<"t", "i", "d", "b", "i", "t", "s">>

\* pattern.FindStringSubmatch(line): <<>> (nil) when the line does not match, else
\* <<whole match, submatch 1, submatch 2>>.  Submatch 1 is the whole leading run of
\* '*', since a whitespace character must follow it.  The quantifiers are greedy
\* and leftmost-first: the first whitespace run takes as much of the whitespace that
\* follows as leaves one whitespace character for the second run, and submatch 2
\* then takes everything up to that last whitespace character before the marker word.
FindStringSubmatch(l) ==
    LET stars == LeadingRun(l, {"*"})
        n == Len(l)
        mid == SubSeq(l, stars + 1, n - Len(Tidbits))
        ok == /\ stars >= 1
              /\ n >= stars + 2 + Len(Tidbits)
              /\ ToLower(SubSeq(l, n - Len(Tidbits) + 1, n)) = Tidbits
              /\ mid[1] \in Whitespace
              /\ mid[Len(mid)] \in Whitespace
        w1 == IF LeadingRun(mid, Whitespace) < Len(mid) - 1
              THEN LeadingRun(mid, Whitespace) ELSE Len(mid) - 1
    IN  IF ok THEN <<l, SubSeq(l, 1, stars), SubSeq(mid, w1 + 1, Len(mid) - 1)>>
        ELSE <<>>

MatchedLine(path, lineNumber, name, indentLevel) ==
    [FilePath |-> path, LineNumber |-> lineNumber, Name |-> name, IndentLevel |-> indentLevel]

\* The body of processFile's loop for one line: what it appends to *matches.
scanLine(path, lineNumber, l) ==
    LET submatches == FindStringSubmatch(l)
    IN  IF Len(submatches) > 1
        THEN <<MatchedLine(path, lineNumber, TrimSpace(submatches[3]), Len(submatches[2]))>>
        ELSE <<>>

\* What processFile appends to *matches while the scanner yields the first n lines.
RECURSIVE scanLines(_, _, _)
scanLines(path, lines, n) ==
    IF n = 0 THEN <<>>
    ELSE scanLines(path, lines, n - 1) \o scanLine(path, n, lines[n])

(***************************************************************************)
(* sort.Slice.  Every Go release sorts a slice of at most 12 elements by   *)
(* insertion sort; a longer slice is sorted by quicksort (pattern-defeating*)
(* quicksort since Go 1.19), whose partitioning swaps elements over one    *)
(* another.  The documentation promises only that the result is ordered    *)
(* ("The sort is not guaranteed to be stable"), so for a longer slice the  *)
(* result is any ordered arrangement of the elements.                      *)
(***************************************************************************)
\* The elements of a slice.
Range(f) == { f[i] : i \in DOMAIN f }

\* data[a:b] sorted by insertion: each element moves left past every element it is
\* less than, and stops at the first one it is not less than.  less[x][y] is the
\* result of the less function for the elements x and y.
insertionSort(s, less) ==
    LET Insert(sorted, x) ==
            LET k == CHOOSE k \in 0..Len(sorted) :
                        /\ \A m \in (k + 1)..Len(sorted) : less[x][sorted[m]]
                        /\ k = 0 \/ ~less[x][sorted[k]]
            IN  SubSeq(sorted, 1, k) \o <<x>> \o SubSeq(sorted, k + 1, Len(sorted))
        upTo[i \in 0..Len(s)] == IF i = 0 THEN <<>> ELSE Insert(upTo[i - 1], s[i])
    IN  upTo[Len(s)]

\* Every arrangement of s in which no element is less than one before it.
orderedArrangements(s, less) ==
    LET RECURSIVE Arrange(_)
        Arrange(rest) ==
            IF rest = {} THEN {<<>>}
            ELSE UNION { { <<s[i]>> \o t : t \in Arrange(rest \ {i}) } :
                         i \in { i \in rest : \A j \in rest : ~less[s[j]][s[i]] } }
    IN  Arrange(1..Len(s))

\* The results sort.Slice(s, less) can leave in s.
sortSlice(s, less) ==
    IF Len(s) <= 12 THEN {insertionSort(s, less)} ELSE orderedArrangements(s, less)

(***************************************************************************)
(* The sorted match report.                                                *)
(***************************************************************************)
\* The less function of sortMatchesByName.
lessByName(x, y) == StrLess(ToLower(x.Name), ToLower(y.Name))

\* The contents sortMatchesByName(matches) can leave in the slice.
sortMatchesByName(ms) ==
    sortSlice(ms, [x \in Range(ms) |-> [y \in Range(ms) |-> lessByName(x, y)]])

\* genReportMatches without the copy: sortMatchesByName is handed the caller's slice.
genReportMatchesInPlace(ms) ==
    { [report |-> sortedMatches, matches |-> sortedMatches] :
      sortedMatches \in sortMatchesByName(ms) }

\* genReportMatches(matches): the sorted copy it renders (report) and the contents
\* of the caller's slice when it returns (matches).  The slice argument shares its
\* backing array with the caller's, so the function sorts a copy (make, copy).
genReportMatches(ms) ==
    { [report |-> sortedMatches, matches |-> ms] : sortedMatches \in sortMatchesByName(ms) }

(***************************************************************************)
(* The duplicate-name report.                                              *)
(***************************************************************************)
EmptyMap == [k \in {} |-> 0]

Put(map, key, value) == [k \in DOMAIN map \cup {key} |-> IF k = key THEN value ELSE map[k]]

\* fmt.Sprintf("%s:%d", match.FilePath, match.LineNumber), kept as the pair it prints.
Place(match) == <<match.FilePath, match.LineNumber>>

\* The nameCount map after the loop over matches (lines 318-329).
nameCountOf(ms) ==
    LET step(map, match) ==
            LET lowerName == ToLower(match.Name)
                info == IF lowerName \in DOMAIN map THEN map[lowerName]
                        ELSE [Name |-> match.Name, Count |-> 0, Places |-> <<>>]
            IN  Put(map, lowerName,
                    [info EXCEPT !.Count = @ + 1, !.Places = Append(@, Place(match))])
        upTo[i \in 0..Len(ms)] == IF i = 0 THEN EmptyMap ELSE step(upTo[i - 1], ms[i])
    IN  upTo[Len(ms)]

\* The orders in which a range over a Go map can visit its values: any.
mapRangeOrders(map) ==
    LET RECURSIVE Visit(_)
        Visit(keys) ==
            IF keys = {} THEN {<<>>}
            ELSE UNION { { <<map[k]>> \o t : t \in Visit(keys \ {k}) } : k \in keys }
    IN  Visit(DOMAIN map)

\* The less function of both sorts of genReportNameCounts.
lessByCount(x, y) == x.Count > y.Count

\* The filter of lines 342-346 with its bound off by one.
atLeastOne(info) == info.Count >= 1

\* The filter of lines 342-346.
atLeastTwo(info) == info.Count >= 2

\* sort.Slice(names, func(i, j int) bool { return names[i].Count > names[j].Count })
sortByCount(names) ==
    sortSlice(names, [x \in Range(names) |-> [y \in Range(names) |-> lessByCount(x, y)]])

\* The filteredNames genReportNameCounts(matches) can render (lines 316-350).
genReportNameCounts(ms) ==
    UNION { UNION { sortByCount(SelectSeq(sorted, atLeastTwo)) : sorted \in sortByCount(names) } :
            names \in mapRangeOrders(nameCountOf(ms)) }

(***************************************************************************)
(* The inputs of run: the path list, the files and the report flags.       *)
(***************************************************************************)
\* The paths a user can give; "~/a" names the file "/home/u/a".
PathNames == {"~/a", "/home/u/a", "/home/u/b"}

\* mymazda.ExpandTilde: the home directory replaces a leading tilde.
ExpandTilde(path) == IF path = "~/a" THEN "/home/u/a" ELSE path

FileNames == { ExpandTilde(p) : p \in PathNames }

SeqsUpTo(S, n) == UNION { [1..k -> S] : k \in 0..n }

HeadingLower == <<"*", " ", "a", " ", "t", "i", "d", "b", "i", "t", "s">>
HeadingUpper == <<"*", "*", " ", "A", " ", "T", "I", "D", "B", "I", "T", "S">>
HeadingBlank == <<"*", " ", " ", "t", "i", "d", "b", "i", "t", "s">>
PlainLine == <<"a", " ", "t", "i", "d", "b", "i", "t">>

\* The lines a file of the model is made of.
Lines == {HeadingLower, HeadingUpper, HeadingBlank, PlainLine}

Contents == SeqsUpTo(Lines, MaxLines)

PathLists == SeqsUpTo(PathNames, MaxPaths) \ {<<>>}

\* The variables run has not touched yet.
Fresh ==
    /\ expandedPaths = <<>>
    /\ idx = 0
    /\ err = ""
    /\ reportMatches = <<>>
    /\ reportNameCounts = <<>>
    /\ reportStats = <<>>
    /\ fileLineCounts = EmptyMap
    /\ fileMatchedLineCounts = EmptyMap
    /\ totalLineCount = 0
    /\ totalMatchedLineCount = 0
    /\ handles = {}
    /\ warnings = <<>>

\* Execute has parsed the flags (Paths is required: at least one path) and calls run.
Init ==
    /\ paths \in PathLists
    /\ files \in { f \in [FileNames -> Contents] :
                   \A p \in FileNames : p \notin { ExpandTilde(q) : q \in Range(paths) } => f[p] = <<>> }
    /\ opts \in [ReportMatches : BOOLEAN, ReportStats : BOOLEAN, ReportNameCounts : BOOLEAN]
    /\ pc = "getAbsPath"
    /\ matches = <<>>
    /\ Fresh

(***************************************************************************)
(* File handles.  os.Open returns the lowest free descriptor; a handle     *)
(* stays open until Close is called on it or the runtime's finalizer       *)
(* closes it after it has become unreachable.                              *)
(***************************************************************************)
lowestFree(open) == CHOOSE fd \in 3..(3 + Cardinality(open)) :
                        /\ fd \notin { h.fd : h \in open }
                        /\ \A g \in 3..(fd - 1) : g \in { h.fd : h \in open }

Open(open, path, by) == [fd |-> lowestFree(open), path |-> path, by |-> by]

\* run returns err: nothing more is printed.
Return(e) ==
    /\ err' = e
    /\ pc' = "done"

(***************************************************************************)
(* run, step by step.                                                      *)
(***************************************************************************)
\* getAbsPath (lines 74-77, 295-307).
GetAbsPath ==
    /\ pc = "getAbsPath"
    /\ \/ /\ expandedPaths' = [i \in 1..Len(paths) |-> ExpandTilde(paths[i])]
          /\ pc' = "canProcess"
          /\ err' = err
       \/ /\ Return("error expanding paths")
          /\ UNCHANGED expandedPaths
    /\ UNCHANGED <<paths, files, opts, idx, matches, reportMatches, reportNameCounts,
                   reportStats, fileLineCounts, fileMatchedLineCounts, totalLineCount,
                   totalMatchedLineCount, handles, warnings>>

\* CanProcessFiles (lines 79-82, 120-133): every path must be detected as UTF-8
\* text; mimetype.DetectFile opens and closes the file itself.
CanProcessFiles ==
    /\ pc = "canProcess"
    /\ \/ /\ pc' = "scan"
          /\ idx' = 0
          /\ err' = err
       \/ /\ Return("error asserting text files")
          /\ UNCHANGED idx
    /\ UNCHANGED <<paths, files, opts, expandedPaths, matches, reportMatches,
                   reportNameCounts, reportStats, fileLineCounts, fileMatchedLineCounts,
                   totalLineCount, totalMatchedLineCount, handles, warnings>>

\* The loop of lines 87-91 keeping the error of processFile and going on to the
\* next path instead of returning.
ProcessFileAndGoOn ==
    /\ pc = "scan"
    /\ idx < Len(expandedPaths)
    /\ LET path == expandedPaths[idx + 1]
           file == Open(handles, path, "processFile")
           lines == files[path]
       IN  \/ /\ err' = "error processing file"
              /\ UNCHANGED <<matches, handles>>
           \/ \E n \in 0..Len(lines) :
                 /\ handles' = handles \cup {file}
                 /\ matches' = matches \o scanLines(path, lines, n)
                 /\ err' = IF n < Len(lines) THEN "error processing file" ELSE err
    /\ idx' = idx + 1
    /\ pc' = IF idx + 1 = Len(expandedPaths) THEN "reportMatches" ELSE "scan"
    /\ UNCHANGED <<paths, files, opts, expandedPaths, reportMatches, reportNameCounts,
                   reportStats, fileLineCounts, fileMatchedLineCounts, totalLineCount,
                   totalMatchedLineCount, warnings>>

\* One iteration of the loop of lines 87-91: processFile(path, &matches)
\* (lines 135-168).  The handle processFile opens is not closed by it.
ProcessFile ==
    /\ pc = "scan"
    /\ idx < Len(expandedPaths)
    /\ LET path == expandedPaths[idx + 1]
           file == Open(handles, path, "processFile")
           lines == files[path]
       IN  \/ \* os.Open fails
              /\ Return("error processing file")
              /\ UNCHANGED <<idx, matches, handles>>
           \/ \* the scanner stops with an error after n lines
              \E n \in 0..Len(lines) :
                 /\ handles' = handles \cup {file}
                 /\ matches' = matches \o scanLines(path, lines, n)
                 /\ Return("error processing file")
                 /\ UNCHANGED idx
           \/ \* the scanner reaches the end of the file
              /\ handles' = handles \cup {file}
              /\ matches' = matches \o scanLines(path, lines, Len(lines))
              /\ idx' = idx + 1
              /\ pc' = IF idx + 1 = Len(expandedPaths) THEN "reportMatches" ELSE "scan"
              /\ err' = err
    /\ UNCHANGED <<paths, files, opts, expandedPaths, reportMatches, reportNameCounts,
                   reportStats, fileLineCounts, fileMatchedLineCounts, totalLineCount,
                   totalMatchedLineCount, warnings>>

\* Lines 93-99.
ReportMatches ==
    /\ pc = "reportMatches"
    /\ \/ /\ opts.ReportMatches
          /\ \E r \in genReportMatches(matches) :
                /\ reportMatches' = <<r.report>>
                /\ matches' = r.matches
       \/ /\ ~opts.ReportMatches
          /\ UNCHANGED <<reportMatches, matches>>
    /\ pc' = "reportNameCounts"
    /\ UNCHANGED <<paths, files, opts, expandedPaths, idx, err, reportNameCounts,
                   reportStats, fileLineCounts, fileMatchedLineCounts, totalLineCount,
                   totalMatchedLineCount, handles, warnings>>

\* Lines 101-107.
ReportNameCounts ==
    /\ pc = "reportNameCounts"
    /\ \/ /\ opts.ReportNameCounts
          /\ \E filteredNames \in genReportNameCounts(matches) :
                reportNameCounts' = <<filteredNames>>
       \/ /\ ~opts.ReportNameCounts
          /\ UNCHANGED reportNameCounts
    /\ pc' = "reportStats"
    /\ UNCHANGED <<paths, files, opts, expandedPaths, idx, matches, err, reportMatches,
                   reportStats, fileLineCounts, fileMatchedLineCounts, totalLineCount,
                   totalMatchedLineCount, handles, warnings>>

\* The map m after m[key]++ for the FilePath of each of the first n matches.
RECURSIVE countByPath(_, _)
countByPath(ms, n) ==
    IF n = 0 THEN EmptyMap
    ELSE LET map == countByPath(ms, n - 1)
             key == ms[n].FilePath
         IN  Put(map, key, (IF key \in DOMAIN map THEN map[key] ELSE 0) + 1)

\* Line 109, and genReportStats up to the end of its loop over matches (lines 218-228).
GenReportStatsBegin ==
    /\ pc = "reportStats"
    /\ \/ /\ opts.ReportStats
          /\ fileLineCounts' = countByPath(matches, Len(matches))
          /\ fileMatchedLineCounts' = countByPath(matches, Len(matches))
          /\ totalLineCount' = Len(matches)
          /\ totalMatchedLineCount' = Len(matches)
          /\ idx' = 0
          /\ pc' = "countLines"
       \/ /\ ~opts.ReportStats
          /\ pc' = "done"
          /\ UNCHANGED <<fileLineCounts, fileMatchedLineCounts, totalLineCount,
                         totalMatchedLineCount, idx>>
    /\ UNCHANGED <<paths, files, opts, expandedPaths, matches, err, reportMatches,
                   reportNameCounts, reportStats, handles, warnings>>

\* One iteration of the loop of lines 230-238: countLinesInFile(path) (lines
\* 200-215), which opens the file, defers its Close, and calls countLines(path)
\* (lines 275-293), which opens the file again and does not close it.
CountLinesInFile ==
    /\ pc = "countLines"
    /\ idx < Len(expandedPaths)
    /\ LET path == expandedPaths[idx + 1]
           file == Open(handles, path, "countLinesInFile")
           file2 == Open(handles \cup {file}, path, "countLines")
       IN  \/ \* os.Open fails in countLinesInFile
              /\ warnings' = Append(warnings, path)
              /\ UNCHANGED <<handles, fileLineCounts, totalLineCount>>
           \/ \* os.Open fails in countLines
              /\ warnings' = Append(warnings, path)
              /\ UNCHANGED <<handles, fileLineCounts, totalLineCount>>
           \/ \* the scanner of countLines stops with an error
              /\ handles' = handles \cup {file2}
              /\ warnings' = Append(warnings, path)
              /\ UNCHANGED <<fileLineCounts, totalLineCount>>
           \/ \* countLines returns the number of lines
              /\ handles' = handles \cup {file2}
              /\ fileLineCounts' = Put(fileLineCounts, path, Len(files[path]))
              /\ totalLineCount' = totalLineCount + Len(files[path])
              /\ UNCHANGED warnings
    /\ idx' = idx + 1
    /\ UNCHANGED <<paths, files, opts, pc, expandedPaths, matches, err, reportMatches,
                   reportNameCounts, reportStats, fileMatchedLineCounts,
                   totalMatchedLineCount>>

\* The rest of genReportStats (lines 240-272) and lines 111-117 of run.
GenReportStatsEnd ==
    /\ pc = "countLines"
    /\ idx = Len(expandedPaths)
    /\ reportStats' = << [FileLineCounts |-> fileLineCounts,
                          TotalLineCount |-> totalLineCount,
                          FileMatchedLineCounts |-> fileMatchedLineCounts,
                          TotalMatchedLineCount |-> totalMatchedLineCount] >>
    /\ pc' = "done"
    /\ UNCHANGED <<paths, files, opts, expandedPaths, idx, matches, err, reportMatches,
                   reportNameCounts, fileLineCounts, fileMatchedLineCounts,
                   totalLineCount, totalMatchedLineCount, handles, warnings>>

\* A garbage collection: the finalizers of the *os.File values nothing refers to any
\* more close them.  Between two steps of run no open handle is referred to.
Finalizer ==
    /\ pc \in {"scan", "reportMatches", "reportNameCounts", "reportStats", "countLines"}
    /\ handles # {}
    /\ handles' = {}
    /\ UNCHANGED <<paths, files, opts, pc, expandedPaths, idx, matches, err, reportMatches,
                   reportNameCounts, reportStats, fileLineCounts, fileMatchedLineCounts,
                   totalLineCount, totalMatchedLineCount, warnings>>

Next ==
    \/ GetAbsPath
    \/ CanProcessFiles
    \/ ProcessFile
    \/ ReportMatches
    \/ ReportNameCounts
    \/ GenReportStatsBegin
    \/ CountLinesInFile
    \/ GenReportStatsEnd
    \/ Finalizer

Spec == Init /\ [][Next]_vars

(***************************************************************************)
(* The two report transforms of a match collection, each alone, applied to *)
(* a collection that processFile can aggregate from one file.              *)
(***************************************************************************)
ReportNames == {<<"a">>, <<"A">>, <<"b">>}

\* Thirteen headings, one more than sort.Slice sorts by insertion, of five names
\* that differ in more than their case.
LongNames == << <<"a">>, <<"b">>, <<"c">>, <<"d">>, <<"e">>,
                <<"A">>, <<"B">>, <<"C">>, <<"D">>, <<"E">>,
                <<"a">>, <<"b">>, <<"c">> >>

\* The heading line processFile reads the name from.
HeadingOf(name) == <<"*", " ">> \o name \o <<" ">> \o Tidbits

\* What processFile aggregates from the file /home/u/a made of the headings of names.
CollectionOf(names) ==
    scanLines("/home/u/a", [i \in 1..Len(names) |-> HeadingOf(names[i])], Len(names))

MatchCollections ==
    { CollectionOf(names) : names \in SeqsUpTo(ReportNames, MaxRecords) \cup {LongNames} }

InitReports ==
    /\ matches \in MatchCollections
    /\ paths = <<>>
    /\ files = [p \in FileNames |-> <<>>]
    /\ opts = [ReportMatches |-> TRUE, ReportStats |-> FALSE, ReportNameCounts |-> TRUE]
    /\ pc = "reports"
    /\ Fresh

\* genReportMatches(matches) and the Println of its result.
RunGenReportMatches ==
    /\ pc = "reports"
    /\ reportMatches = <<>>
    /\ \E r \in genReportMatches(matches) :
          /\ reportMatches' = <<r.report>>
          /\ matches' = r.matches
    /\ UNCHANGED <<paths, files, opts, pc, expandedPaths, idx, err, reportNameCounts,
                   reportStats, fileLineCounts, fileMatchedLineCounts, totalLineCount,
                   totalMatchedLineCount, handles, warnings>>

SortSpec == InitReports /\ [][RunGenReportMatches]_vars

\* genReportNameCounts(matches) and the Println of its result; the program can be
\* run on the same matches again and again.
RunGenReportNameCounts ==
    /\ pc = "reports"
    /\ \E filteredNames \in genReportNameCounts(matches) :
          reportNameCounts' = <<filteredNames>>
    /\ UNCHANGED <<paths, files, opts, pc, expandedPaths, idx, matches, err, reportMatches,
                   reportStats, fileLineCounts, fileMatchedLineCounts, totalLineCount,
                   totalMatchedLineCount, handles, warnings>>

NameCountsSpec == InitReports /\ [][RunGenReportNameCounts]_vars

(***************************************************************************)
(* Properties.                                                             *)
(***************************************************************************)
Occurrences(s, x) == Cardinality({ i \in DOMAIN s : s[i] = x })

Position(s, x) == CHOOSE i \in DOMAIN s : s[i] = x

RECURSIVE SumValues(_)
SumValues(map) ==
    IF DOMAIN map = {} THEN 0
    ELSE LET k == CHOOSE k \in DOMAIN map : TRUE
         IN  map[k] + SumValues([x \in DOMAIN map \ {k} |-> map[x]])

\* The matches of the first n paths of expandedPaths, in path order, then line order.
RECURSIVE ScanOrder(_)
ScanOrder(n) ==
    IF n = 0 THEN <<>>
    ELSE ScanOrder(n - 1) \o
         scanLines(expandedPaths[n], files[expandedPaths[n]], Len(files[expandedPaths[n]]))

SameName(x, y) == ToLower(x.Name) = ToLower(y.Name)

\* C1: the sorted match report is a permutation of the aggregated matches, ordered
\* by non-decreasing lower-cased Name, in which records whose Names are equal but
\* for their case keep the relative order they have in the aggregated matches.
C1_SortedReportStable ==
    reportMatches # <<>> =>
        LET sorted == reportMatches[1]
        IN  /\ Len(sorted) = Len(matches)
            /\ \A m \in Range(matches) : Occurrences(sorted, m) = Occurrences(matches, m)
            /\ \A i, j \in DOMAIN sorted : i < j => ~lessByName(sorted[j], sorted[i])
            /\ \A i, j \in DOMAIN sorted :
                  (i < j /\ SameName(sorted[i], sorted[j]))
                      => Position(matches, sorted[i]) < Position(matches, sorted[j])

\* C2: in the statistics report every path that has a matched-line count has a
\* line count at least as large.
C2_MatchedAtMostLines ==
    reportStats # <<>> =>
        LET stats == reportStats[1]
        IN  \A p \in DOMAIN stats.FileMatchedLineCounts :
               /\ p \in DOMAIN stats.FileLineCounts
               /\ stats.FileMatchedLineCounts[p] <= stats.FileLineCounts[p]

\* C3: in the statistics report TotalLineCount is the sum of the values of
\* FileLineCounts and TotalMatchedLineCount the sum of the values of
\* FileMatchedLineCounts.
C3_TotalsAreSums ==
    reportStats # <<>> =>
        LET stats == reportStats[1]
        IN  /\ stats.TotalLineCount = SumValues(stats.FileLineCounts)
            /\ stats.TotalMatchedLineCount = SumValues(stats.FileMatchedLineCounts)

\* C4: every entry of the duplicate-name report has a Count of at least 2, as many
\* Places as its Count, a Count equal to the number of matches whose lower-cased
\* Name is the entry's key, and no entry has a larger Count than the one before it.
C4_DuplicateReportSound ==
    reportNameCounts # <<>> =>
        LET names == reportNameCounts[1]
        IN  \A i \in DOMAIN names :
               /\ names[i].Count >= 2
               /\ Len(names[i].Places) = names[i].Count
               /\ names[i].Count = Cardinality({ j \in DOMAIN matches : SameName(matches[j], names[i]) })
               /\ i > 1 => names[i - 1].Count >= names[i].Count

\* A duplicate-name report of a group of three and a group of two.
C4_Witness ==
    /\ pc = "reports"
    /\ reportNameCounts # <<>>
    /\ Len(reportNameCounts[1]) = 2
    /\ reportNameCounts[1][1].Count = 3
    /\ reportNameCounts[1][2].Count = 2

\* C5: when processFile fails for a path, run returns the error at that path: it has
\* scanned no later path and prints none of the three reports, whatever the flags.
C5_ScanFailureAbortsRun ==
    err = "error processing file" =>
        /\ pc = "done"
        /\ idx < Len(expandedPaths)
        /\ \A i \in DOMAIN matches :
              \E k \in 1..(idx + 1) : matches[i].FilePath = expandedPaths[k]
        /\ reportMatches = <<>>
        /\ reportNameCounts = <<>>
        /\ reportStats = <<>>

\* processFile failed for the second path, after a first path with matches, with all
\* three reports asked for.
C5_Witness ==
    /\ err = "error processing file"
    /\ idx = 1
    /\ Len(expandedPaths) = 2
    /\ expandedPaths[1] # expandedPaths[2]
    /\ matches # <<>>
    /\ opts.ReportMatches /\ opts.ReportNameCounts /\ opts.ReportStats

\* C6: when the line count of a path fails, the statistics report is still
\* produced without error, a path none of whose counts succeeded is no key of
\* FileLineCounts and adds nothing to TotalLineCount, and the other paths are counted.
C6_CountFailureSkipsPath ==
    (reportStats # <<>> /\ warnings # <<>>) =>
        LET stats == reportStats[1]
            counted(p) == Occurrences(expandedPaths, p) - Occurrences(warnings, p)
        IN  /\ err = ""
            /\ \A p \in Range(expandedPaths) :
                  IF counted(p) = 0 THEN p \notin DOMAIN stats.FileLineCounts
                  ELSE /\ p \in DOMAIN stats.FileLineCounts
                       /\ stats.FileLineCounts[p] = Len(files[p])
            /\ stats.TotalLineCount =
                  SumValues([p \in Range(expandedPaths) |-> counted(p) * Len(files[p])])

\* C7: no file handle is open between two passes over files, nor when run returns.
C7_HandlesClosed == handles = {}

\* C8: run again on the same matches, genReportNameCounts renders the same groups in
\* the same order.
C8_NameCountsDeterministic ==
    [][(reportNameCounts # <<>> /\ reportNameCounts' # <<>>)
          => reportNameCounts' = reportNameCounts]_vars

\* C9: no MatchedLine has an empty Name.
C9_NameNeverEmpty == \A i \in DOMAIN matches : matches[i].Name # <<>>

\* C10: once run is past genReportMatches, matches still holds the records in scan
\* order (path order, then line order), and each group of the duplicate-name report
\* lists its places in scan order and is named after its first-scanned record.
C10_MatchesKeptInScanOrder ==
    (pc \in {"reportNameCounts", "reportStats", "countLines", "done"}
        /\ err = "" /\ expandedPaths # <<>>) =>
        LET scanned == ScanOrder(Len(expandedPaths))
        IN  /\ matches = scanned
            /\ reportNameCounts # <<>> =>
                  \A i \in DOMAIN reportNameCounts[1] :
                     LET info == reportNameCounts[1][i]
                         InGroup(m) == SameName(m, info)
                         group == SelectSeq(scanned, InGroup)
                     IN  /\ info.Places = [j \in DOMAIN group |-> Place(group[j])]
                         /\ info.Name = group[1].Name

\* Both reports printed, the sorted one in another order than the scan order, the
\* duplicate-name one with a group.
C10_Witness ==
    /\ pc = "done"
    /\ reportMatches # <<>>
    /\ reportMatches[1] # matches
    /\ reportNameCounts # <<>>
    /\ reportNameCounts[1] # <<>>

====
